---- MODULE Spec2Model ----
(***************************************************************************)
(* Model of src/python/visualizations.py: class Visualizations.            *)
(*                                                                         *)
(* A DataFrame is a record [index, columns, data]: the row labels, the     *)
(* column names and one record per row.  DataFrames are Python objects, so *)
(* they live in a heap and the program holds references to them: the copy  *)
(* made by tabulate_results is a new object, and a write through one       *)
(* reference is seen through every other reference to the same object.     *)
(* A cell of a derived column is None (the empty tuple) or <<v>>.          *)
(***************************************************************************)
EXTENDS Integers, Sequences, FiniteSets, TLC

\* Largest number of rows of the test set.
MaxRows == 3
\* Scores of the parse tree range over 0..MaxScore (a grid standing for the floats).
MaxScore == 3

VARIABLES
    THRESHOLD_LOW,   \* IrisGP.THRESHOLD_LOW
    THRESHOLD_HIGH,  \* IrisGP.THRESHOLD_HIGH
    parse_tree,      \* self.parse_tree: what evaluate_row does on each record
    heap,            \* the DataFrame objects, by reference
    test_results,    \* self.test_results: a reference, NoRef until __init__ assigns it
    local,           \* tabulate_results' local variable test_results, NoRef outside a call
    caller,          \* who called the running tabulate_results: "__init__" or "user"
    i,               \* position of the iterrows iterator of the running loop
    calls,           \* positions handed to IrisGP.evaluate_row in the current pass, in call order
    pc,              \* "new", "loop", "ready", "failed"
    ret              \* what the last completed method call of the user returned or rendered

vars == <<THRESHOLD_LOW, THRESHOLD_HIGH, parse_tree, heap, test_results, local,
          caller, i, calls, pc, ret>>

----------------------------------------------------------------------------
(* Values *)

None == <<>>

NoRef == 0
\* self.test_df is object 1; the other two references are the copies tabulate_results makes.
TestDfRef == 1
Refs == {1, 2, 3}

Unallocated == [index |-> <<>>, columns |-> <<>>, data |-> <<>>]

Classes == {"Iris-setosa", "Iris-versicolor", "Iris-virginica"}

OriginalColumns ==
    <<"SepalLengthCm", "SepalWidthCm", "PetalLengthCm", "PetalWidthCm", "Species">>

\* The labelled rows a test set is drawn from.  pandas does not require the row
\* labels of a DataFrame to be unique: two of the rows share label 0 and differ,
\* two have the same record under different labels.
Rows ==
    { [idx |-> 0, rec |-> [SepalLengthCm |-> 51, SepalWidthCm |-> 35, PetalLengthCm |-> 14,
                           PetalWidthCm |-> 2, Species |-> "Iris-setosa"]],
      [idx |-> 0, rec |-> [SepalLengthCm |-> 63, SepalWidthCm |-> 33, PetalLengthCm |-> 60,
                           PetalWidthCm |-> 25, Species |-> "Iris-virginica"]],
      [idx |-> 1, rec |-> [SepalLengthCm |-> 63, SepalWidthCm |-> 33, PetalLengthCm |-> 60,
                           PetalWidthCm |-> 25, Species |-> "Iris-virginica"]] }

\* The pairs THRESHOLD_LOW < THRESHOLD_HIGH the class may be configured with:
\* adjacent thresholds, and thresholds with a score strictly between them.
ThresholdPairs == {<<1, 2>>, <<1, 3>>}

Scores == 0..MaxScore

\* What one call of IrisGP.evaluate_row can do: raise, or return (correctness, res).
Outcomes ==
    {[raises |-> TRUE, correctness |-> FALSE, res |-> 0]}
    \cup [raises : {FALSE}, correctness : BOOLEAN, res : Scores]

\* The records the rows carry.
TestRecords == {r.rec : r \in Rows}

----------------------------------------------------------------------------
(* pandas operations used by the class *)

\* The original fields of a row: what the parse tree reads.
Fields(row) ==
    [SepalLengthCm |-> row.SepalLengthCm, SepalWidthCm |-> row.SepalWidthCm,
     PetalLengthCm |-> row.PetalLengthCm, PetalWidthCm |-> row.PetalWidthCm,
     Species |-> row.Species]

\* IrisGP.evaluate_row(parse_tree, row): a deterministic function of the record.
evaluate_row(tree, row) == tree[Fields(row)]

\* The first reference no object uses.
alloc(h) == CHOOSE r \in Refs : h[r] = Unallocated /\ \A q \in Refs : h[q] = Unallocated => r <= q

\* Objects nothing refers to any more are gone.
collect(h, roots) == [r \in Refs |-> IF r \in roots THEN h[r] ELSE Unallocated]

df_copy_alias(h, src) == [ref |-> src, heap |-> h]

RECURSIVE KeepFirst(_, _)
KeepFirst(df, k) ==
    IF k > Len(df.data) THEN [index |-> <<>>, columns |-> df.columns, data |-> <<>>]
    ELSE LET rest == KeepFirst(df, k + 1)
             dup == \E j \in 1..(k - 1) : df.data[j] = df.data[k]
         IN IF dup THEN rest
            ELSE [index |-> <<df.index[k]>> \o rest.index, columns |-> df.columns,
                  data |-> <<df.data[k]>> \o rest.data]

df_copy_drop_duplicates(h, src) ==
    LET r == alloc(h) IN [ref |-> r, heap |-> [h EXCEPT ![r] = KeepFirst(h[src], 1)]]

\* df.copy(): a new object with the same labels, columns and rows.
df_copy(h, src) ==
    LET r == alloc(h) IN [ref |-> r, heap |-> [h EXCEPT ![r] = h[src]]]

\* df[col] = None: the column is added (or reset) in every row.
set_column_none(df) ==
    [index |-> df.index,
     columns |-> df.columns \o <<"Correct", "PredictedValue", "PredictedSpecies">>,
     data |-> [k \in 1..Len(df.data) |->
                 [SepalLengthCm |-> df.data[k].SepalLengthCm,
                  SepalWidthCm |-> df.data[k].SepalWidthCm,
                  PetalLengthCm |-> df.data[k].PetalLengthCm,
                  PetalWidthCm |-> df.data[k].PetalWidthCm,
                  Species |-> df.data[k].Species,
                  Correct |-> None, PredictedValue |-> None, PredictedSpecies |-> None]]]

\* df.at[idx, col] = v: the cell of every row labelled idx is set.
at_set(df, idx, col, v) ==
    [df EXCEPT !.data = [k \in 1..Len(df.data) |->
                           IF df.index[k] = idx THEN [df.data[k] EXCEPT ![col] = <<v>>]
                           ELSE df.data[k]]]

\* df[col].tolist()
column(df, col) == [k \in 1..Len(df.data) |-> df.data[k][col]]

species_inclusive(res, low, high) ==
    IF res <= low THEN "Iris-setosa"
    ELSE IF res <= high THEN "Iris-versicolor"
    ELSE "Iris-virginica"

\* The thresholding step of tabulate_results.
species(res, low, high) ==
    IF res < low THEN "Iris-setosa"
    ELSE IF res < high THEN "Iris-versicolor"
    ELSE "Iris-virginica"

----------------------------------------------------------------------------
(* Initial state: a test set, a parse tree and the thresholds are given *)

Init ==
    /\ \E t \in ThresholdPairs :
          /\ THRESHOLD_LOW = t[1]
          /\ THRESHOLD_HIGH = t[2]
    /\ parse_tree \in [TestRecords -> Outcomes]
    /\ \E n \in 0..MaxRows :
          \E rows \in [1..n -> Rows] :
             heap = [r \in Refs |->
                       IF r = TestDfRef
                       THEN [index |-> [k \in 1..n |-> rows[k].idx],
                             columns |-> OriginalColumns,
                             data |-> [k \in 1..n |-> rows[k].rec]]
                       ELSE Unallocated]
    /\ test_results = NoRef
    /\ local = NoRef
    /\ caller = "__init__"
    /\ i = 1
    /\ calls = <<>>
    /\ pc = "new"
    /\ ret = [op |-> "none"]

----------------------------------------------------------------------------
(* tabulate_results *)

\* The references the program still holds once a call is over.
Roots == {TestDfRef, test_results} \ {NoRef}

tabulate_results_begin_stale_iterator(who) ==
    LET c == df_copy(collect(heap, Roots), TestDfRef) IN
    /\ heap' = [c.heap EXCEPT ![c.ref] = set_column_none(@)]
    /\ local' = c.ref
    /\ caller' = who
    /\ calls' = <<>>
    /\ pc' = "loop"
    /\ ret' = [op |-> "none"]
    /\ UNCHANGED <<THRESHOLD_LOW, THRESHOLD_HIGH, parse_tree, test_results, i>>

tabulate_results_begin_needs_first_row(who) ==
    LET c == df_copy(collect(heap, Roots), TestDfRef) IN
    /\ heap' = IF Len(heap[TestDfRef].data) = 0 THEN collect(heap, Roots)
               ELSE [c.heap EXCEPT ![c.ref] = set_column_none(@)]
    /\ local' = IF Len(heap[TestDfRef].data) = 0 THEN NoRef ELSE c.ref
    /\ caller' = who
    /\ i' = 1
    /\ calls' = <<>>
    /\ pc' = IF Len(heap[TestDfRef].data) = 0 THEN "failed" ELSE "loop"
    /\ ret' = [op |-> "none"]
    /\ UNCHANGED <<THRESHOLD_LOW, THRESHOLD_HIGH, parse_tree, test_results>>

\* Lines 43-47: copy the test set, add the three columns, start the iteration.
\* The table a previous call returned to the user is dropped with its result.
tabulate_results_begin(who) ==
    LET c == df_copy(collect(heap, Roots), TestDfRef) IN
    /\ heap' = [c.heap EXCEPT ![c.ref] = set_column_none(@)]
    /\ local' = c.ref
    /\ caller' = who
    /\ i' = 1
    /\ calls' = <<>>
    /\ pc' = "loop"
    /\ ret' = [op |-> "none"]
    /\ UNCHANGED <<THRESHOLD_LOW, THRESHOLD_HIGH, parse_tree, test_results>>

\* Visualizations(parse_tree, test_df): __init__ calls tabulate_results.
Construct ==
    /\ pc = "new"
    /\ tabulate_results_begin("__init__")

\* A later call of the public method by the user of the object.
CallTabulateResults ==
    /\ pc = "ready"
    /\ tabulate_results_begin("user")

\* Lines 47-57, one iteration in which evaluate_row returns.  iterrows yields the
\* rows as they were when the loop started; the cells written since are the derived
\* ones, which evaluate_row does not read.
LoopEvaluate ==
    /\ pc = "loop"
    /\ i <= Len(heap[local].data)
    /\ LET idx == heap[local].index[i]
           o == evaluate_row(parse_tree, heap[local].data[i])
           sp == species(o.res, THRESHOLD_LOW, THRESHOLD_HIGH)
       IN /\ ~o.raises
          /\ heap' = [heap EXCEPT ![local] =
                        at_set(at_set(at_set(@, idx, "Correct", o.correctness),
                                      idx, "PredictedValue", o.res),
                               idx, "PredictedSpecies", sp)]
    /\ calls' = Append(calls, i)
    /\ i' = i + 1
    /\ UNCHANGED <<THRESHOLD_LOW, THRESHOLD_HIGH, parse_tree, test_results, local,
                   caller, pc, ret>>

LoopRaiseSwallowed ==
    /\ pc = "loop"
    /\ i <= Len(heap[local].data)
    /\ evaluate_row(parse_tree, heap[local].data[i]).raises
    /\ calls' = Append(calls, i)
    /\ i' = i + 1
    /\ UNCHANGED <<THRESHOLD_LOW, THRESHOLD_HIGH, parse_tree, heap, test_results, local,
                   caller, pc, ret>>

LoopRaiseRetry ==
    /\ pc = "loop"
    /\ i <= Len(heap[local].data)
    /\ evaluate_row(parse_tree, heap[local].data[i]).raises
    /\ calls' = Append(calls, i)
    /\ UNCHANGED <<THRESHOLD_LOW, THRESHOLD_HIGH, parse_tree, heap, test_results, local,
                   caller, i, pc, ret>>

\* Line 48 raises: nothing catches it, so tabulate_results and its caller are left;
\* the half-filled copy was only reachable from the frame.  Raised in __init__, the
\* object is never handed to anyone.
LoopRaise ==
    /\ pc = "loop"
    /\ i <= Len(heap[local].data)
    /\ evaluate_row(parse_tree, heap[local].data[i]).raises
    /\ calls' = Append(calls, i)
    /\ heap' = collect(heap, Roots)
    /\ local' = NoRef
    /\ pc' = IF caller = "__init__" THEN "failed" ELSE "ready"
    /\ ret' = [op |-> "none"]
    /\ UNCHANGED <<THRESHOLD_LOW, THRESHOLD_HIGH, parse_tree, test_results, caller, i>>

\* Line 58, and line 30 when the caller is __init__.
LoopReturn ==
    /\ pc = "loop"
    /\ i > Len(heap[local].data)
    /\ IF caller = "__init__"
       THEN /\ test_results' = local
            /\ ret' = ret
       ELSE /\ test_results' = test_results
            /\ ret' = [op |-> "tabulate_results", ref |-> local]
    /\ local' = NoRef
    /\ pc' = "ready"
    /\ UNCHANGED <<THRESHOLD_LOW, THRESHOLD_HIGH, parse_tree, heap, caller, i, calls>>

----------------------------------------------------------------------------
(* The consumers of self.test_results *)

COLOR_MAP ==
    [c \in Classes |->
       CASE c = "Iris-setosa" -> "tab:blue"
         [] c = "Iris-versicolor" -> "tab:orange"
         [] c = "Iris-virginica" -> "tab:green"]

\* Opacities are in tenths.
CORRECT_OPACITY == 3
INCORRECT_OPACITY == 10
CORRECT_SIZE == 30
INCORRECT_SIZE == 60

\* Python's truth value of a cell: None is false.
truthy(cell) == cell # None /\ cell[1]

marker_size_swapped(correct) == IF truthy(correct) THEN INCORRECT_SIZE ELSE CORRECT_SIZE

\* s=CORRECT_SIZE if row["Correct"] else INCORRECT_SIZE
marker_size(correct) == IF truthy(correct) THEN CORRECT_SIZE ELSE INCORRECT_SIZE

\* alpha=CORRECT_OPACITY if row["Correct"] else 1
marker_alpha(correct) == IF truthy(correct) THEN CORRECT_OPACITY ELSE INCORRECT_OPACITY

\* Lines 93-100: one scatter point per row, in table order.  COLOR_MAP[...] of a
\* cell that holds no class is a KeyError: nothing is rendered then.
plot_predictions_by_dimension(part) ==
    /\ pc = "ready"
    /\ LET df == heap[test_results] IN
       /\ \A k \in 1..Len(df.data) :
             /\ df.data[k].PredictedSpecies # None
             /\ df.data[k].PredictedSpecies[1] \in DOMAIN COLOR_MAP
       /\ ret' = [op |-> "scatter", part |-> part,
                  points |-> [k \in 1..Len(df.data) |->
                     [x |-> df.data[k][part \o "LengthCm"],
                      y |-> df.data[k][part \o "WidthCm"],
                      color |-> COLOR_MAP[df.data[k].PredictedSpecies[1]],
                      alpha |-> marker_alpha(df.data[k].Correct),
                      s |-> marker_size(df.data[k].Correct)]]]
    /\ heap' = collect(heap, Roots)
    /\ UNCHANGED <<THRESHOLD_LOW, THRESHOLD_HIGH, parse_tree, test_results, local,
                   caller, i, calls, pc>>

\* Lines 121-123: the two label columns handed to confusion_matrix.
plot_confusion_matrix ==
    /\ pc = "ready"
    /\ ret' = [op |-> "confusion_matrix",
               y_true |-> column(heap[test_results], "Species"),
               y_pred |-> column(heap[test_results], "PredictedSpecies")]
    /\ heap' = collect(heap, Roots)
    /\ UNCHANGED <<THRESHOLD_LOW, THRESHOLD_HIGH, parse_tree, test_results, local,
                   caller, i, calls, pc>>

\* df.pop(col): returns the column and removes it from the frame.
df_pop(df, col) ==
    [index |-> df.index,
     columns |-> SelectSeq(df.columns, LAMBDA c : c # col),
     data |-> [k \in 1..Len(df.data) |-> [df.data[k] EXCEPT ![col] = None]]]

print_classification_report_pop ==
    /\ pc = "ready"
    /\ ret' = [op |-> "classification_report",
               y_true |-> column(heap[test_results], "Species"),
               y_pred |-> column(heap[test_results], "PredictedSpecies")]
    /\ heap' = [collect(heap, Roots) EXCEPT ![test_results] = df_pop(@, "PredictedSpecies")]
    /\ UNCHANGED <<THRESHOLD_LOW, THRESHOLD_HIGH, parse_tree, test_results, local,
                   caller, i, calls, pc>>

\* Lines 139-143: the two label lists handed to accuracy_score and classification_report.
print_classification_report ==
    /\ pc = "ready"
    /\ ret' = [op |-> "classification_report",
               y_true |-> column(heap[test_results], "Species"),
               y_pred |-> column(heap[test_results], "PredictedSpecies")]
    /\ heap' = collect(heap, Roots)
    /\ UNCHANGED <<THRESHOLD_LOW, THRESHOLD_HIGH, parse_tree, test_results, local,
                   caller, i, calls, pc>>

Next ==
    \/ Construct
    \/ CallTabulateResults
    \/ LoopEvaluate
    \/ LoopRaise
    \/ LoopReturn
    \/ \E part \in {"Sepal", "Petal"} : plot_predictions_by_dimension(part)
    \/ plot_confusion_matrix
    \/ print_classification_report

Spec == Init /\ [][Next]_vars

----------------------------------------------------------------------------
(* Properties *)

\* The test set handed to the constructor.
Input == heap[TestDfRef]
N == Len(Input.data)

\* The tables tabulate_results has built and not yet dropped.
ResultRefs == {r \in Refs \ {TestDfRef} : heap[r] # Unallocated}

\* Every derived cell of the table holds a value.
Filled(df) ==
    \A k \in 1..Len(df.data) :
       /\ df.data[k].Correct # None
       /\ df.data[k].PredictedValue # None
       /\ df.data[k].PredictedSpecies # None

Raises(k) == evaluate_row(parse_tree, Input.data[k]).raises

\* The table has the labels, the order and the original fields of the input.
SameRecords(out, in) ==
    /\ out.index = in.index
    /\ Len(out.data) = Len(in.data)
    /\ SubSeq(out.columns, 1, Len(in.columns)) = in.columns
    /\ \A k \in 1..Len(in.data) : Fields(out.data[k]) = in.data[k]

\* C1: with THRESHOLD_LOW < THRESHOLD_HIGH, every row that has been given a score s
\* has exactly one of the three classes: Iris-setosa iff s < THRESHOLD_LOW,
\* Iris-versicolor iff THRESHOLD_LOW <= s < THRESHOLD_HIGH, Iris-virginica iff
\* s >= THRESHOLD_HIGH; a score equal to a threshold gets the class above it.
C1_Thresholding ==
    /\ THRESHOLD_LOW < THRESHOLD_HIGH
    /\ \A r \in ResultRefs : \A k \in 1..Len(heap[r].data) :
          LET row == heap[r].data[k] IN
          row.PredictedValue # None =>
             /\ row.PredictedSpecies # None
             /\ row.PredictedSpecies[1] \in Classes
             /\ row.PredictedSpecies[1] = "Iris-setosa"
                   <=> row.PredictedValue[1] < THRESHOLD_LOW
             /\ row.PredictedSpecies[1] = "Iris-versicolor"
                   <=> (THRESHOLD_LOW <= row.PredictedValue[1]
                        /\ row.PredictedValue[1] < THRESHOLD_HIGH)
             /\ row.PredictedSpecies[1] = "Iris-virginica"
                   <=> row.PredictedValue[1] >= THRESHOLD_HIGH

\* A finished table with a score on each threshold.
C1_Witness ==
    /\ pc = "ready"
    /\ \E j, k \in 1..N :
          /\ heap[test_results].data[j].PredictedValue = <<THRESHOLD_LOW>>
          /\ heap[test_results].data[j].PredictedSpecies = <<"Iris-versicolor">>
          /\ heap[test_results].data[k].PredictedValue = <<THRESHOLD_HIGH>>
          /\ heap[test_results].data[k].PredictedSpecies = <<"Iris-virginica">>

\* C2: a tabulate_results that returns gives a table with exactly the N rows of the
\* input, in input order, under the same labels and with the original fields of
\* each row unchanged - for the table __init__ stores and for the table a later
\* call returns.
C2_OrderPreserved ==
    /\ test_results # NoRef => SameRecords(heap[test_results], Input)
    /\ ret.op = "tabulate_results" => SameRecords(heap[ret.ref], Input)

\* A three-row input whose first and last rows are equal and differ from the second.
C2_Witness ==
    /\ pc = "ready"
    /\ N = 3
    /\ Input.data[1] = Input.data[3]
    /\ Input.index[1] = Input.index[3]
    /\ Input.data[1] # Input.data[2]
    /\ Len(heap[test_results].data) = 3

\* C3: in the table of a finished construction the derived fields of row k are
\* those of the evaluation of input row k: Correct is the flag evaluate_row
\* returned for it, PredictedValue its score and PredictedSpecies the class of
\* that score - also when rows are equal or share a row label.
C3_DerivedFromOwnRow ==
    pc = "ready" =>
       \A k \in 1..N :
          LET o == evaluate_row(parse_tree, Input.data[k])
              row == heap[test_results].data[k]
          IN /\ row.Correct = <<o.correctness>>
             /\ row.PredictedValue = <<o.res>>
             /\ row.PredictedSpecies = <<species(o.res, THRESHOLD_LOW, THRESHOLD_HIGH)>>

\* C4: when evaluate_row raises on a record, the construction fails: no table is
\* stored or returned and the half-filled copy is gone; an object that exists was
\* built without any raise, and every table it holds or returns has all derived
\* cells of all rows filled.
C4_NoPartialTable ==
    /\ pc = "failed" =>
          /\ test_results = NoRef
          /\ ret.op = "none"
          /\ ResultRefs = {}
    /\ pc = "ready" => \A k \in 1..N : ~Raises(k)
    /\ test_results # NoRef => Filled(heap[test_results])
    /\ ret.op = "tabulate_results" => Filled(heap[ret.ref])
    /\ ret.op = "scatter" => Len(ret.points) = N
    /\ ret.op \in {"confusion_matrix", "classification_report"} =>
          /\ Len(ret.y_pred) = N
          /\ \A k \in 1..N : ret.y_pred[k] # None

\* The construction failed on the second of three records.
C4_Witness ==
    /\ pc = "failed"
    /\ N = 3
    /\ calls = <<1, 2>>
    /\ ~Raises(1)
    /\ Raises(2)

\* C5: in one pass evaluate_row is called on the records in input order, one call
\* per record and no record twice; every call but the last one of the pass
\* returned, so nothing is evaluated after a raise; a pass that returns has made
\* exactly N calls.
C5_OncePerRecordInOrder ==
    /\ \A j \in 1..Len(calls) : calls[j] = j
    /\ Len(calls) <= N
    /\ \A j \in 1..(Len(calls) - 1) : ~Raises(calls[j])
    /\ pc = "loop" => Len(calls) = i - 1
    /\ pc = "ready" => Len(calls) = N
    /\ pc = "failed" => Len(calls) >= 1 /\ Raises(calls[Len(calls)])

\* A pass over three records that stopped at the first one, and one that made all calls.
C5_Witness ==
    /\ N = 3
    /\ \/ pc = "failed" /\ calls = <<1>>
       \/ pc = "ready" /\ calls = <<1, 2, 3>> /\ ret.op = "tabulate_results"

\* C6: on an empty test set tabulate_results never fails, calls evaluate_row zero
\* times and gives an empty table.
C6_EmptyInput ==
    N = 0 =>
       /\ pc # "failed"
       /\ calls = <<>>
       /\ \A r \in ResultRefs : heap[r].data = <<>> /\ heap[r].index = <<>>

\* An object built on an empty test set, whose tabulate_results was called again.
C6_Witness ==
    /\ N = 0
    /\ pc = "ready"
    /\ test_results # NoRef
    /\ ret.op = "tabulate_results"
    /\ heap[ret.ref].data = <<>>

\* C7: no step of the program changes the test set test_df: its rows, their
\* order, their labels and its columns stay as they were.
C7_InputUnchanged == [][heap'[TestDfRef] = heap[TestDfRef]]_vars

\* A failed construction and a finished one, each after writes to the copy.
C7_Witness ==
    /\ N = 3
    /\ Input.columns = OriginalColumns
    /\ \/ pc = "failed" /\ calls = <<1, 2, 3>>
       \/ pc = "ready" /\ Len(heap[test_results].columns) = Len(OriginalColumns) + 3

\* C8: once __init__ has stored the table, no step changes it or replaces it, and
\* the labels a report step is given are the Species and PredictedSpecies cells of
\* the rows of that table, in table order.
C8_ResultsReadOnly ==
    [][/\ test_results # NoRef =>
             /\ test_results' = test_results
             /\ heap'[test_results] = heap[test_results]
       /\ ret'.op \in {"confusion_matrix", "classification_report"} =>
             /\ Len(ret'.y_true) = Len(heap[test_results].data)
             /\ Len(ret'.y_pred) = Len(heap[test_results].data)
             /\ \A k \in 1..Len(heap[test_results].data) :
                   /\ ret'.y_true[k] = heap[test_results].data[k].Species
                   /\ ret'.y_pred[k] = heap[test_results].data[k].PredictedSpecies
      ]_vars

\* A report on a table in which a prediction differs from the ground truth.
C8_Witness ==
    /\ ret.op = "classification_report"
    /\ N >= 2
    /\ \E k \in 1..N : ret.y_pred[k] # <<ret.y_true[k]>>
    /\ \E k \in 1..N : ret.y_pred[k] = <<ret.y_true[k]>>

\* C9: the table a second call of tabulate_results returns equals the table the
\* first call built: same labels, same columns, same cells in every row.
C9_SecondCallSameTable ==
    ret.op = "tabulate_results" => heap[ret.ref] = heap[test_results]

\* Two distinct tables over three rows that do not all get the same class.
C9_Witness ==
    /\ ret.op = "tabulate_results"
    /\ ret.ref # test_results
    /\ N = 3
    /\ \E j, k \in 1..N :
          heap[ret.ref].data[j].PredictedSpecies # heap[ret.ref].data[k].PredictedSpecies

\* C10: the scatter has one point per row of the table; the point of a correct
\* prediction is strictly smaller and strictly more transparent than the point of
\* an incorrect one; the colour is COLOR_MAP of the predicted class, COLOR_MAP is
\* defined on the three classes and two points have the same colour only when
\* their rows have the same predicted class.
C10_DisplayEncoding ==
    /\ DOMAIN COLOR_MAP = Classes
    /\ ret.op = "scatter" =>
          LET df == heap[test_results] IN
          /\ Len(ret.points) = Len(df.data)
          /\ \A k \in 1..Len(df.data) :
                /\ df.data[k].PredictedSpecies[1] \in DOMAIN COLOR_MAP
                /\ ret.points[k].color = COLOR_MAP[df.data[k].PredictedSpecies[1]]
          /\ \A j, k \in 1..Len(df.data) :
                /\ (df.data[j].Correct = <<TRUE>> /\ df.data[k].Correct = <<FALSE>>) =>
                      /\ ret.points[j].s < ret.points[k].s
                      /\ ret.points[j].alpha < ret.points[k].alpha
                /\ ret.points[j].color = ret.points[k].color
                      => df.data[j].PredictedSpecies = df.data[k].PredictedSpecies

\* A scatter with a correct and an incorrect prediction of different classes.
C10_Witness ==
    /\ ret.op = "scatter"
    /\ \E j, k \in 1..N :
          /\ heap[test_results].data[j].Correct = <<TRUE>>
          /\ heap[test_results].data[k].Correct = <<FALSE>>
          /\ ret.points[j].color # ret.points[k].color

====
